---- MODULE Spec2Model ----
(***************************************************************************)
(* Model of app.py of InfiniteYou: the module-level pipeline cache         *)
(* (loaded_pipeline_config), download_models, prepare_pipeline and         *)
(* generate_image, run by the event queue of the Gradio front end.         *)
(*                                                                         *)
(* A work item is one call of generate_image.  Its frame holds the         *)
(* position of the call (pc), its arguments and its local variables.       *)
(* prepare_pipeline is split where it calls into code that can raise or    *)
(* that acquires or releases accelerator memory.                           *)
(***************************************************************************)
EXTENDS Integers, Sequences, FiniteSets, TLC

VARIABLES
    models_downloaded,       \* app.py:42, the module-level flag
    loaded_pipeline_config,  \* app.py:55-62, the module-level dict
    heap,                    \* the InfUFluxPipeline instances that are alive
    results,                 \* the entries of OUTPUT_DIR
    queue,                   \* callers whose click is waiting for the lane
    work,                    \* caller -> frame of its running generate_image
    prev                     \* the last finished call that reached prepare_pipeline

vars == <<models_downloaded, loaded_pipeline_config, heap, results, queue, work, prev>>

----------------------------------------------------------------------------
(* Bounds of the model *)

\* number of callers (browser sessions) that submit requests
NCallers == 2

\* number of files the results directory may hold before requests stop
MaxFiles == 2

\* pipeline instance identities available to the constructor
MaxIds == 3

----------------------------------------------------------------------------
(* Values *)

\* Python's None, as the value of the 'pipeline' slot and of the local variable
None == 0

STAGE_1 == "sim_stage1"
STAGE_2 == "aes_stage2"

\* the choices of the Model Version dropdown
ModelVersions == {STAGE_1, STAGE_2}

\* the adapter names the cache manages
AdapterNames == {"realism", "anti_blur"}

\* the event listeners that call generate_image when their event runs.
\* gr.Examples is given fn=generate_examples with cache_examples=False and
\* without run_on_click: clicking an example fills the input fields and runs
\* nothing, so the Generate button's click is the only one.
Listeners == {"click"}

\* the concurrency_id of a listener: "gpu" for the click, its own otherwise
ConcurrencyId(l) == IF l = "click" THEN "gpu" ELSE l

\* default_concurrency_limit of demo.queue(): events sharing a concurrency_id
\* ("gpu" for the Generate button) run at most this many at a time
ConcurrencyLimit == 1

Callers == 1..NCallers

\* 16-bit limbs: a 32-bit seed is <<lo, hi>>, a 64-bit torch.seed() value is
\* <<l0, l1, l2, l3>>, least significant limb first
Limb == 65536

IsZero(s) == \A i \in 1..Len(s) : s[i] = 0

\* seeds a caller types into the "seed (0 for random)" field: 0 and
\* 3724009365 = 56823 * 65536 + 57237, the seed of a sample_list row
UserSeeds == { <<0, 0>>, <<57237, 56823>> }

\* values torch.seed() returns: 64-bit, non-deterministic; here
\* 3 * 2^32 + 3724009365 and 2^32
TorchSeeds == { <<57237, 56823, 3, 0>>, <<0, 0, 1, 0>> }

\* seed = torch.seed() & 0xFFFFFFFF
Mask32(t) == <<t[1], t[2]>>

\* a seed step that draws whatever the caller asked for
SeedUsed_AlwaysDraw(seed, drawn) == Mask32(drawn)

\* if seed == 0: seed = torch.seed() & 0xFFFFFFFF
SeedUsed(seed, drawn) == IF IsZero(seed) THEN Mask32(drawn) ELSE seed

\* one decimal long-division step on a two-limb value
Div10(s) ==
    LET q1 == s[2] \div 10
        t  == (s[2] % 10) * Limb + s[1]
    IN  <<t \div 10, q1>>

Mod10(s) == ((s[2] % 10) * Limb + s[1]) % 10

RECURSIVE str(_)
\* str(seed): the decimal digits of the seed, most significant first
\* (the quotient is bound once, as a value, before the recursive call)
str(s) ==
    IF s[2] = 0 /\ s[1] < 10 THEN <<s[1]>>
    ELSE CHOOSE d \in { Append(str(q), Mod10(s)) : q \in {Div10(s)} } : TRUE

RECURSIVE int(_)
\* the value a digit string denotes (what a caller gets by copying the
\* "Last Seed Used" field back into the seed field)
int(d) ==
    IF Len(d) = 0 THEN <<0, 0>>
    ELSE LET v == int(SubSeq(d, 1, Len(d) - 1))
             lo == v[1] * 10 + d[Len(d)]
         IN  <<lo % Limb, (v[2] * 10 + lo \div Limb) % Limb>>

----------------------------------------------------------------------------
(* The cache *)

ConfigKeys == {"model_version", "enable_realism", "enable_anti_blur",
               "quantize_8bit", "cpu_offload"}

HasPipelineKey == "pipeline" \in DOMAIN loaded_pipeline_config

\* a pipeline instance is resident
Resident == HasPipelineKey /\ loaded_pipeline_config["pipeline"] # None

\* the five recorded fields of loaded_pipeline_config
Recorded == [k \in ConfigKeys |-> loaded_pipeline_config[k]]

\* the add-ons a config enables, as adapter names
EnabledAddOns(c) ==
    (IF c.enable_realism THEN {"realism"} ELSE {}) \cup
    (IF c.enable_anti_blur THEN {"anti_blur"} ELSE {})

\* the loras list of prepare_pipeline: realism first, then anti_blur
Loras(c) ==
    (IF c.enable_realism THEN <<"realism">> ELSE <<>>) \o
    (IF c.enable_anti_blur THEN <<"anti_blur">> ELSE <<>>)

\* a prepare_pipeline without its early return
ExactMatch_Never(c) == FALSE

\* the test of the early return
ExactMatch(c) ==
    /\ loaded_pipeline_config["pipeline"] # None
    /\ loaded_pipeline_config["enable_realism"] = c.enable_realism
    /\ loaded_pipeline_config["enable_anti_blur"] = c.enable_anti_blur
    /\ loaded_pipeline_config["quantize_8bit"] = c.quantize_8bit
    /\ loaded_pipeline_config["cpu_offload"] = c.cpu_offload
    /\ c.model_version = loaded_pipeline_config["model_version"]

\* a record of the request that leaves the recorded variant as it was
RecordConfig_KeepVersion(d, c) ==
    [k \in DOMAIN d |-> IF k \in ConfigKeys \ {"model_version"} THEN c[k] ELSE d[k]]

\* the five assignments that record the request
RecordConfig(d, c) ==
    [k \in DOMAIN d |-> IF k \in ConfigKeys THEN c[k] ELSE d[k]]

\* a rebuild test that reloads on every change of the request
NeedsRebuild_Always(pipeline, model_version) == TRUE

\* pipeline is None or pipeline.model_version != model_version
NeedsRebuild(pipeline, model_version) ==
    pipeline = None \/ heap[pipeline].model_version # model_version

\* del loaded_pipeline_config['pipeline']
DelPipelineKey(d) == [k \in DOMAIN d \ {"pipeline"} |-> d[k]]

\* a construction that forgets to store the new instance in the dict
SetPipelineKey_NoStore(d, p) == d

\* loaded_pipeline_config['pipeline'] = pipeline
SetPipelineKey(d, p) ==
    [k \in DOMAIN d \cup {"pipeline"} |-> IF k = "pipeline" THEN p ELSE d[k]]

\* InfUFluxPipeline(model_version=..., quantize_8bit=..., cpu_offload=...)
InfUFluxPipeline(model_version, quantize_8bit, cpu_offload) ==
    [model_version |-> model_version, quantize_8bit |-> quantize_8bit,
     cpu_offload |-> cpu_offload, adapters |-> {}]

\* pipeline.pipe.delete_adapters(names)
delete_adapters(attached, names) == attached \ names

\* pipeline.load_loras(loras), of which the first k load before it returns or raises
load_loras(attached, loras, k) == attached \cup { loras[i] : i \in 1..k }

----------------------------------------------------------------------------
(* Frames *)

Args == [model_version : ModelVersions, enable_realism : BOOLEAN,
         enable_anti_blur : BOOLEAN, quantize_8bit : BOOLEAN,
         cpu_offload : BOOLEAN, seed : UserSeeds]

ConfigOf(a) == [k \in ConfigKeys |-> a[k]]

\* no call has reached prepare_pipeline yet
NoPrev ==
    [valid |-> FALSE, config |-> [k \in ConfigKeys |-> FALSE], exc |-> "",
     prepared |-> FALSE, pipeline |-> None, built |-> 0, entry |-> "none"]

\* the frame of a call of generate_image that has just been entered
NewFrame(a) ==
    [pc |-> "download", args |-> a, pipeline |-> None,
     entry |-> "none", pipeline0 |-> None, path |-> "none", built |-> 0,
     called |-> FALSE, seed |-> a.seed, reported |-> <<>>, exc |-> "",
     saved |-> {}, fn |-> "click", config0 |-> ConfigOf(a),
     image |-> "none", notice |-> "", flag0 |-> FALSE, downloads |-> 0]

Running == DOMAIN work

\* the references to pipeline instances held by the dict and by the frames w
Referenced(d, w) ==
    ((IF "pipeline" \in DOMAIN d /\ d["pipeline"] # None THEN {d["pipeline"]} ELSE {})
     \cup { w[c].pipeline : c \in DOMAIN w }) \ {None}

\* reference counting and gc.collect(): instances nothing refers to are freed
Collect(h, d, w) == [i \in DOMAIN h \cap Referenced(d, w) |-> h[i]]

\* the identity of a newly constructed instance
NewId ==
    CHOOSE i \in 1..MaxIds :
        /\ i \notin DOMAIN heap
        /\ i \notin Referenced(loaded_pipeline_config, work)
        /\ ~(prev.valid /\ prev.pipeline = i)

\* an exception e leaves generate_image: the queue reports it to the caller
Raise(c, e) == [work EXCEPT ![c].pc = "raised", ![c].exc = e, ![c].notice = e]

----------------------------------------------------------------------------
Init ==
    /\ models_downloaded = FALSE
    /\ loaded_pipeline_config =
         [model_version |-> "aes_stage2", enable_realism |-> FALSE,
          enable_anti_blur |-> FALSE, quantize_8bit |-> FALSE,
          cpu_offload |-> FALSE, pipeline |-> None]
    /\ heap = <<>>
    /\ results = {}
    /\ queue = <<>>
    /\ work = <<>>
    /\ prev = NoPrev

----------------------------------------------------------------------------
(* The event queue: ui_btn_generate.click(..., concurrency_id="gpu") under   *)
(* demo.queue()                                                              *)

\* a caller triggers listener l; the event joins the tail of the queue
Submit(c, l) ==
    /\ c \notin Running
    /\ \A i \in 1..Len(queue) : queue[i].caller # c
    /\ queue' = Append(queue, [caller |-> c, fn |-> l])
    /\ UNCHANGED <<models_downloaded, loaded_pipeline_config, heap, results, work, prev>>

\* a queue that never holds an event back
LaneFree_Unlimited(k) == TRUE

\* the lane of concurrency id k has room
LaneFree(k) ==
    Cardinality({ c \in Running : ConcurrencyId(work[c].fn) = k }) < ConcurrencyLimit

\* a queue that starts any waiting event once the lane has room
Eligible_AnyPosition(i) == LaneFree(ConcurrencyId(queue[i].fn))

\* the i-th queued event is the first of its lane and its lane has room
Eligible(i) ==
    /\ LaneFree(ConcurrencyId(queue[i].fn))
    /\ \A j \in 1..(i - 1) : ConcurrencyId(queue[j].fn) # ConcurrencyId(queue[i].fn)

\* the queue without its i-th event
Without(q, i) == SubSeq(q, 1, i - 1) \o SubSeq(q, i + 1, Len(q))

\* generate_examples passes the defaults for quantize_8bit and cpu_offload
ArgsOf(l, a) ==
    IF l = "click" THEN a
    ELSE [a EXCEPT !.quantize_8bit = TRUE, !.cpu_offload = TRUE]

\* download_models: what the two snapshot downloads can do
DownloadOutcomes ==
    IF models_downloaded THEN {"skipped"}
    ELSE {"ok", "first_raises", "second_raises"}

\* how many snapshot_download calls download_models makes
DownloadCalls(outcome) ==
    IF outcome = "skipped" THEN 0 ELSE IF outcome = "first_raises" THEN 1 ELSE 2

\* a download_models that sets the flag before the second download
download_models_FlagEarly(outcome) ==
    IF outcome \in {"ok", "second_raises"} THEN TRUE ELSE models_downloaded

\* download_models: the flag it leaves
download_models(outcome) ==
    IF outcome = "ok" THEN TRUE ELSE models_downloaded

\* the frame after line 152
AfterDownload(a, outcome) ==
    LET f == [NewFrame(a) EXCEPT !.flag0 = models_downloaded,
                                 !.downloads = DownloadCalls(outcome)]
    IN  IF outcome \in {"skipped", "ok"}
        THEN [f EXCEPT !.pc = "prepare"]
        ELSE LET e == IF outcome = "first_raises" THEN "snapshot_download"
                      ELSE "Model download failed"
             IN  [f EXCEPT !.pc = "raised", !.exc = e, !.notice = e]

\* the queue starts the event of caller c, whose payload is the inputs a: the
\* call of generate_image is entered and runs download_models()
Start(c, a) ==
    /\ Cardinality(results) < MaxFiles
    /\ \E i \in 1..Len(queue) :
         /\ queue[i].caller = c
         /\ Eligible(i)
         /\ queue' = Without(queue, i)
         /\ \E outcome \in DownloadOutcomes :
              /\ models_downloaded' = download_models(outcome)
              /\ work' = work @@
                   (c :> [AfterDownload(ArgsOf(queue[i].fn, a), outcome)
                             EXCEPT !.fn = queue[i].fn])
    /\ UNCHANGED <<loaded_pipeline_config, heap, results, prev>>

----------------------------------------------------------------------------
(* prepare_pipeline *)

\* how the 'pipeline' slot stands when prepare_pipeline is entered
EntryKind ==
    IF ~HasPipelineKey THEN "absent"
    ELSE IF loaded_pipeline_config["pipeline"] = None THEN "empty" ELSE "resident"

\* where prepare_pipeline goes after recording the request
AfterRecord(pipeline, model_version) ==
    IF NeedsRebuild(pipeline, model_version)
    THEN (IF pipeline # None THEN "release" ELSE "construct")
    ELSE "adapters"

\* lines 82-99: the early return, the recording of the request, the rebuild test
PrepareCheck(c) ==
    /\ c \in Running
    /\ work[c].pc = "prepare"
    /\ LET f == work[c]
           cfg == ConfigOf(f.args)
       IN
       \/ /\ ~HasPipelineKey
          /\ work' = [work EXCEPT ![c].pc = "raised", ![c].exc = "KeyError",
                                  ![c].notice = "KeyError",
                                  ![c].entry = "absent", ![c].config0 = Recorded]
          /\ UNCHANGED loaded_pipeline_config
       \/ /\ HasPipelineKey
          /\ ExactMatch(cfg)
          /\ work' = [work EXCEPT ![c].pc = "infer", ![c].path = "hit",
                                  ![c].entry = EntryKind, ![c].config0 = Recorded,
                                  ![c].pipeline0 = loaded_pipeline_config["pipeline"],
                                  ![c].pipeline = loaded_pipeline_config["pipeline"]]
          /\ UNCHANGED loaded_pipeline_config
       \/ /\ HasPipelineKey
          /\ ~ExactMatch(cfg)
          /\ loaded_pipeline_config' = RecordConfig(loaded_pipeline_config, cfg)
          /\ LET p == loaded_pipeline_config["pipeline"]
                 to == AfterRecord(p, cfg.model_version)
             IN work' = [work EXCEPT ![c].pc = to,
                                     ![c].path = IF to = "adapters" THEN "swap" ELSE "rebuild",
                                     ![c].entry = EntryKind, ![c].config0 = Recorded,
                                     ![c].pipeline0 = p,
                                     ![c].pipeline = p]
    /\ UNCHANGED <<models_downloaded, heap, results, queue, prev>>

\* a release that forgets del loaded_pipeline_config['pipeline']
Released_KeepSlot(d) == d

\* what lines 102-105 leave of the dict
Released(d) == DelPipelineKey(d)

\* lines 101-105: del pipeline, del the slot, gc.collect(), empty_cache()
Release(c) ==
    /\ c \in Running
    /\ work[c].pc = "release"
    /\ work' = [work EXCEPT ![c].pc = "construct", ![c].pipeline = None]
    /\ loaded_pipeline_config' = Released(loaded_pipeline_config)
    /\ heap' = Collect(heap, loaded_pipeline_config', work')
    /\ UNCHANGED <<models_downloaded, results, queue, prev>>

\* lines 107-121: the constructor call and the store into the slot
Construct(c) ==
    /\ c \in Running
    /\ work[c].pc = "construct"
    /\ LET a == work[c].args IN
       \/ /\ heap' = heap @@ (NewId :>
                 InfUFluxPipeline(a.model_version, a.quantize_8bit, a.cpu_offload))
          /\ loaded_pipeline_config' = SetPipelineKey(loaded_pipeline_config, NewId)
          /\ work' = [work EXCEPT ![c].pc = "adapters", ![c].pipeline = NewId,
                                  ![c].built = 1]
       \/ /\ work' = Raise(c, "InfUFluxPipeline")
          /\ UNCHANGED <<heap, loaded_pipeline_config>>
    /\ UNCHANGED <<models_downloaded, results, queue, prev>>

\* lines 123-131: delete_adapters, then load_loras, which may raise part-way
LoadAdapters(c) ==
    /\ c \in Running
    /\ work[c].pc = "adapters"
    /\ LET f == work[c]
           loras == Loras(ConfigOf(f.args))
       IN \E k \in 0..Len(loras) :
            /\ heap' = [heap EXCEPT ![f.pipeline].adapters =
                          load_loras(delete_adapters(@, AdapterNames), loras, k)]
            /\ work' = IF k = Len(loras)
                       THEN [work EXCEPT ![c].pc = "infer"]
                       ELSE Raise(c, "load_loras")
    /\ UNCHANGED <<models_downloaded, loaded_pipeline_config, results, queue, prev>>

----------------------------------------------------------------------------
(* generate_image after prepare_pipeline has returned *)

\* an except branch that evicts the pipeline
OnInferenceError_Evict(d) == [d EXCEPT !["pipeline"] = None]

\* the except branch (lines 189-192) prints, builds a gr.Error and returns: it
\* leaves the dict as it is
OnInferenceError(d) == d

\* line 191, gr.Error(f"An error occurred: {e}"): the exception object is
\* built and dropped, never raised, so the caller is shown nothing
ErrorNotice(e) == ""

\* the width of the index in a file name, {index:05d}
IndexWidth == 5

RECURSIVE zfill(_, _)
\* zero padding on the left up to a width; longer digit strings are kept whole
zfill(d, width) == IF Len(d) >= width THEN d ELSE zfill(<<0>> \o d, width)

\* f"{index:05d}"
format05d(index) == zfill(str(<<index % Limb, index \div Limb>>), IndexWidth)

\* a file name that does not depend on what the directory holds
out_name_NoIndex(index, seed) == [index |-> format05d(0), seed |-> str(seed)]

\* out_name without its prompt part: f"{index:05d}_..._seed{seed}.png"
out_name(index, seed) == [index |-> format05d(index), seed |-> str(seed)]

\* a save that does not wait for the pipeline call to succeed
Saved_Always(dir, ok, name) == dir \cup {name}

\* image.save(out_path) is inside the try, after the pipeline call: it runs
\* only when that call returned, and writes the one file out_path names
Saved(dir, ok, name) == IF ok THEN dir \cup {name} ELSE dir

\* index = len(os.listdir(OUTPUT_DIR))
listdir_len(dir) == Cardinality(dir)

\* lines 163-192: the seed, the pipeline call, the save, the return value
RunInference(c) ==
    /\ c \in Running
    /\ work[c].pc = "infer"
    /\ \E drawn \in TorchSeeds, ok \in BOOLEAN :
         LET seed == SeedUsed(work[c].args.seed, drawn)
             name == out_name(listdir_len(results), seed)
         IN  \/ /\ ok
                /\ results' = Saved(results, ok, name)
                /\ UNCHANGED loaded_pipeline_config
                /\ work' = [work EXCEPT ![c].pc = "returned", ![c].called = TRUE,
                                        ![c].seed = seed, ![c].reported = str(seed),
                                        ![c].saved = {name}, ![c].image = "value"]
             \/ /\ ~ok
                /\ work' = [work EXCEPT ![c].pc = "returned", ![c].called = TRUE,
                                        ![c].seed = seed, ![c].reported = str(seed),
                                        ![c].exc = "pipeline", ![c].image = "unchanged",
                                        ![c].notice = ErrorNotice("pipeline")]
                /\ loaded_pipeline_config' = OnInferenceError(loaded_pipeline_config)
                /\ results' = Saved(results, ok, name)
    /\ UNCHANGED <<models_downloaded, heap, queue, prev>>

\* what is remembered of a finished call
Summary(f) ==
    [valid |-> TRUE, config |-> ConfigOf(f.args), exc |-> f.exc,
     prepared |-> f.called, pipeline |-> f.pipeline, built |-> f.built,
     entry |-> f.entry]

\* the call has returned or raised: the queue hands the outcome to the caller
\* and the frame, with its local references, is gone
Finish(c) ==
    /\ c \in Running
    /\ work[c].pc \in {"returned", "raised"}
    /\ work' = [d \in Running \ {c} |-> work[d]]
    /\ heap' = Collect(heap, loaded_pipeline_config, work')
    /\ prev' = IF work[c].entry # "none" THEN Summary(work[c]) ELSE prev
    /\ UNCHANGED <<models_downloaded, loaded_pipeline_config, results, queue>>

----------------------------------------------------------------------------
\* the steps callers cs can take with inputs from as
NextFor(cs, as) ==
    \/ \E c \in cs, l \in Listeners : Submit(c, l)
    \/ \E c \in cs, a \in as : Start(c, a)
    \/ \E c \in cs : PrepareCheck(c)
    \/ \E c \in cs : Release(c)
    \/ \E c \in cs : Construct(c)
    \/ \E c \in cs : LoadAdapters(c)
    \/ \E c \in cs : RunInference(c)
    \/ \E c \in cs : Finish(c)

\* one caller, every input: the cache under the serialized lane
Next == NextFor({1}, Args)

Spec == Init /\ [][Next]_vars

\* the inputs of the sample_list rows, with the checkboxes at their defaults
LaneArgs ==
    { a \in Args : /\ a.quantize_8bit /\ a.cpu_offload /\ ~a.enable_anti_blur
                   /\ ~IsZero(a.seed)
                   /\ (a.enable_realism => a.model_version = STAGE_2) }

\* several callers, the sample inputs: the lane under concurrent callers
NextLane == NextFor(Callers, LaneArgs)

SpecLane == Init /\ [][NextLane]_vars

\* what the queue's worker and a running call do on their own; pressing the
\* button is up to the callers
LaneProgress ==
    \E c \in Callers :
        \/ \E a \in LaneArgs : Start(c, a)
        \/ PrepareCheck(c)
        \/ Release(c)
        \/ Construct(c)
        \/ LoadAdapters(c)
        \/ RunInference(c)
        \/ Finish(c)

\* the worker started by demo.queue() keeps taking events while there are
\* any, and a call that is running keeps running
SpecLaneFair == SpecLane /\ WF_vars(LaneProgress)

----------------------------------------------------------------------------
(* generate_image handed a model_version outside the dropdown's choices *)

\* a model_version that is neither sim_stage1 nor aes_stage2 (the string of
\* line 213): generate_image and prepare_pipeline take the argument as it
\* comes, neither compares it with the known variants
UnknownVersions == {"v1.0"}

\* the sample inputs with the model_version free
BoundaryArgs ==
    { [a EXCEPT !.model_version = v] : a \in LaneArgs, v \in ModelVersions \cup UnknownVersions }

NextBoundary == NextFor({1}, BoundaryArgs)

SpecBoundary == Init /\ [][NextBoundary]_vars

----------------------------------------------------------------------------
(* The file name of a saved image, lines 182-187 *)

\* the prompt is cut to this many characters before it is cleaned
PromptPrefix == 50

\* the longest tail a prompt of the sanitizer's inputs carries
MaxTail == 2

\* characters, one token each: letters and digits of ASCII, U+00E9 (e with
\* acute, a letter outside ASCII), the underscore, the hyphen, the space, a
\* slash, a quote and U+1F600 (an emoji)
AlnumChars == {"a", "b", "Z", "7", "U+00E9"}
Chars == AlnumChars \cup {"_", "-", " ", "/", "'", "U+1F600"}

\* str.isalnum() of one character
isalnum(ch) == ch \in AlnumChars

\* prompt[:n]
Slice(s, n) == SubSeq(s, 1, IF Len(s) < n THEN Len(s) ELSE n)

\* s.replace(old, new) for single characters
replace(s, old, new) == [i \in 1..Len(s) |-> IF s[i] = old THEN new ELSE s[i]]

\* ''.join(c if c.isalnum() or c in '_-' else '_' for c in s)
join_clean(s) ==
    [i \in 1..Len(s) |-> IF isalnum(s[i]) \/ s[i] \in {"_", "-"} THEN s[i] ELSE "_"]

RECURSIVE lstrip(_, _)
lstrip(s, ch) == IF Len(s) > 0 /\ s[1] = ch THEN lstrip(Tail(s), ch) ELSE s

RECURSIVE rstrip(_, _)
rstrip(s, ch) ==
    IF Len(s) > 0 /\ s[Len(s)] = ch THEN rstrip(SubSeq(s, 1, Len(s) - 1), ch) ELSE s

\* a strip that strips nothing
strip_Nothing(s, ch) == s

\* s.strip(ch)
strip(s, ch) == rstrip(lstrip(s, ch), ch)

\* prompt_name, line 184
prompt_name(prompt) ==
    strip(join_clean(replace(Slice(prompt, PromptPrefix), " ", "_")), "_")

\* out_name, line 185, as its three parts
SaveName(index, prompt, seed) ==
    [index |-> out_name(index, seed).index,
     prompt_name |-> prompt_name(prompt),
     seed |-> out_name(index, seed).seed]

\* the number a file name starts with
IndexOf(name) == int(name.index)[1]

\* the seeds a save can be handed (line 164)
SeedsUsed == { SeedUsed(u, t) : u \in UserSeeds, t \in TorchSeeds }

RECURSIVE Rep(_, _)
\* n copies of one character
Rep(ch, n) == IF n = 0 THEN <<>> ELSE <<ch>> \o Rep(ch, n - 1)

\* sequences over Chars of a length up to n
SeqsUpTo(n) == UNION { [1..k -> Chars] : k \in 0..n }

\* prompts around the cut: a run of one character up to it, then a tail
Prompts ==
    { Rep(ch, n) \o t : ch \in {"b", "/"},
                        n \in {0, PromptPrefix - 1, PromptPrefix},
                        t \in SeqsUpTo(MaxTail) }

\* short prompts, for runs of several saves
SavePrompts == SeqsUpTo(1)

\* lines 182-187 on their own: one image saved into the results directory
SaveArtifact(prompt, seed, max) ==
    /\ Cardinality(results) < max
    /\ LET name == SaveName(listdir_len(results), prompt, seed)
       IN  /\ results' = Saved(results, TRUE, name)
           /\ work' = (1 :> [pc |-> "saved", prompt |-> prompt, seed |-> seed,
                             index |-> listdir_len(results),
                             overwrote |-> name \in results,
                             saved |-> {name}])
    /\ UNCHANGED <<models_downloaded, loaded_pipeline_config, heap, queue, prev>>

\* one save of any prompt around the cut
NextSanitize == \E prompt \in Prompts, seed \in SeedsUsed : SaveArtifact(prompt, seed, 1)

SpecSanitize == Init /\ [][NextSanitize]_vars

\* saves one after another into a directory that starts empty
NextSave ==
    \E prompt \in SavePrompts, seed \in SeedsUsed : SaveArtifact(prompt, seed, MaxFiles)

SpecSave == Init /\ [][NextSave]_vars

----------------------------------------------------------------------------
(* Claims *)

\* prepare_pipeline has returned normally to the frame f
PrepareReturned(f) == f.pc \in {"infer", "returned"}

\* the frame f has been through the early-return test of prepare_pipeline
Entered(f) == f.entry # "none"

\* configs x and y agree on variant, quantization and offload and differ in add-ons
OnlyAddOnsDiffer(x, y) ==
    /\ x.model_version = y.model_version
    /\ x.quantize_8bit = y.quantize_8bit
    /\ x.cpu_offload = y.cpu_offload
    /\ EnabledAddOns(x) # EnabledAddOns(y)

\* configs x and y differ in the variant and in nothing else
OnlyVariantDiffers(x, y) ==
    /\ x.model_version # y.model_version
    /\ \A k \in ConfigKeys \ {"model_version"} : x[k] = y[k]

\* C1: when the InfUFluxPipeline constructor raises, the 'pipeline' slot exists
\* and holds None, and the next call of prepare_pipeline rebuilds from scratch
\* instead of failing on the dict
C1_FailedRebuildLeavesEmptyCache ==
    /\ \A c \in Running :
         work[c].exc = "InfUFluxPipeline" =>
            HasPipelineKey /\ loaded_pipeline_config["pipeline"] = None
    /\ \A c \in Running :
         (prev.valid /\ prev.exc = "InfUFluxPipeline" /\ Entered(work[c])) =>
            work[c].exc # "KeyError" /\ work[c].path = "rebuild"

\* C2: with the same variant resident and quantize_8bit or cpu_offload
\* different from the request, prepare_pipeline rebuilds, so the pipeline it
\* returns was built with the requested quantize_8bit and cpu_offload
C2_ReturnedPipelineBuiltWithRequestedFlags ==
    \A c \in Running :
      LET f == work[c] IN
        /\ (/\ Entered(f) /\ f.entry = "resident"
            /\ f.config0.model_version = f.args.model_version
            /\ (f.config0.quantize_8bit # f.args.quantize_8bit
                \/ f.config0.cpu_offload # f.args.cpu_offload))
           => f.path = "rebuild"
        /\ PrepareReturned(f) =>
             /\ heap[f.pipeline].quantize_8bit = f.args.quantize_8bit
             /\ heap[f.pipeline].cpu_offload = f.args.cpu_offload

\* C3: from the empty cache, two consecutive calls of prepare_pipeline with the
\* same config that both return run the constructor once in total and return
\* the same instance
C3_TwoIdenticalCallsBuildOnce ==
    \A c \in Running :
      LET f == work[c] IN
        (/\ PrepareReturned(f)
         /\ prev.valid /\ prev.prepared /\ prev.entry = "empty"
         /\ prev.config = ConfigOf(f.args))
        => /\ prev.built + f.built = 1
           /\ f.pipeline # None
           /\ f.pipeline = prev.pipeline

\* C3's case: the second of two such calls has returned
C3_Witness ==
    \E c \in Running :
        /\ PrepareReturned(work[c])
        /\ prev.valid /\ prev.prepared /\ prev.entry = "empty"
        /\ prev.config = ConfigOf(work[c].args)
        /\ work[c].path = "hit"

\* C4: the resident pipeline is released (no reference in the dict, instance
\* freed) before the constructor of the next one starts; never two instances
\* alive at once
C4_ReleaseBeforeConstruct ==
    /\ Cardinality(DOMAIN heap) <= 1
    /\ \A c \in Running :
         work[c].pc = "construct" => DOMAIN heap = {} /\ ~Resident

\* C4's case: a pipeline was resident, the request differs from the recorded
\* config in the variant only, and the constructor is about to run
C4_Witness ==
    \E c \in Running :
        /\ work[c].pc = "construct"
        /\ work[c].entry = "resident"
        /\ OnlyVariantDiffers(work[c].config0, ConfigOf(work[c].args))

\* C5: with a pipeline resident and a request that differs from the recorded
\* config in the add-ons only, prepare_pipeline neither destroys nor rebuilds:
\* the resident instance stays in the slot and is the one returned
C5_AddOnChangeKeepsInstance ==
    \A c \in Running :
      LET f == work[c] IN
        (/\ Entered(f) /\ f.entry = "resident"
         /\ OnlyAddOnsDiffer(f.config0, ConfigOf(f.args)))
        => /\ f.path = "swap"
           /\ f.built = 0
           /\ f.pipeline = f.pipeline0
           /\ f.pipeline0 \in DOMAIN heap
           /\ Resident /\ loaded_pipeline_config["pipeline"] = f.pipeline0

\* C5's case: such a call has returned
C5_Witness ==
    \E c \in Running :
        /\ PrepareReturned(work[c])
        /\ work[c].entry = "resident"
        /\ OnlyAddOnsDiffer(work[c].config0, ConfigOf(work[c].args))

\* C6: whenever prepare_pipeline returns, by any path, the adapters attached to
\* the returned pipeline are exactly the add-ons the request enables
C6_ReturnedAdaptersAreRequested ==
    \A c \in Running :
        PrepareReturned(work[c]) =>
            heap[work[c].pipeline].adapters = EnabledAddOns(ConfigOf(work[c].args))

\* a step in which the pipeline call of caller c raises
InferenceRaises(c) ==
    /\ c \in Running /\ work[c].pc = "infer"
    /\ work'[c].pc = "returned" /\ work'[c].exc = "pipeline"

\* C7: a pipeline call that raises leaves the dict and the instances as they
\* were, with the pipeline resident; the next request with the same config is
\* a cache hit on the same instance, with no reconstruction
C7_InferenceFailureKeepsCache ==
    /\ [][\A c \in Callers : InferenceRaises(c) =>
             /\ loaded_pipeline_config' = loaded_pipeline_config
             /\ heap' = heap
             /\ Resident']_vars
    /\ [](\A c \in Running :
            (/\ prev.valid /\ prev.exc = "pipeline" /\ Entered(work[c])
             /\ prev.config = ConfigOf(work[c].args))
            => /\ work[c].path = "hit"
               /\ work[c].built = 0
               /\ work[c].pipeline = prev.pipeline)

\* C7's case: the request after a failed pipeline call asks for the same config
C7_Witness ==
    \E c \in Running :
        /\ prev.valid /\ prev.exc = "pipeline" /\ Entered(work[c])
        /\ prev.config = ConfigOf(work[c].args)

\* C8: at most one call of generate_image is in progress at any time
C8_OneWorkItemAtATime == Cardinality(Running) <= 1

\* C8's case: a call is in progress while another caller's event waits
C8_Witness ==
    \E c \in Running : work[c].pc = "adapters" /\ Len(queue) > 0

\* C9: a request with seed 0 runs with, and reports, a nonzero seed
C9_DrawnSeedIsNonzero ==
    \A c \in Running :
        (work[c].pc = "returned" /\ IsZero(work[c].args.seed)) =>
            ~IsZero(work[c].seed) /\ ~IsZero(int(work[c].reported))

\* C10: a nonzero seed is passed to the pipeline and reported back unchanged,
\* whether the pipeline call returns or raises, and the dict never holds it
C10_NonzeroSeedKept ==
    /\ DOMAIN loaded_pipeline_config \subseteq ConfigKeys \cup {"pipeline"}
    /\ \A c \in Running :
         (work[c].pc = "returned" /\ ~IsZero(work[c].args.seed)) =>
            /\ work[c].seed = work[c].args.seed
            /\ int(work[c].reported) = work[c].args.seed

\* C10's case: a call with a nonzero seed whose pipeline call raised has returned
C10_Witness ==
    \E c \in Running :
        /\ work[c].pc = "returned" /\ ~IsZero(work[c].args.seed)
        /\ work[c].exc = "pipeline"

\* C11: when the pipeline call raises, generate_image returns instead of
\* raising, and what the caller gets tells it of the error and carries the
\* seed that was used
C11_InferenceErrorReported ==
    \A c \in Running :
        work[c].exc = "pipeline" =>
            /\ work[c].pc = "returned"
            /\ work[c].notice # ""
            /\ int(work[c].reported) = work[c].seed

\* C12: saves one after another into an empty results directory leave as
\* many files as there were saves, no save overwrites a file, and the
\* numbers the file names start with are exactly 0..N-1
C12_SequentialSavesAreDistinct ==
    /\ {IndexOf(n) : n \in results} = 0..(Cardinality(results) - 1)
    /\ \A n1, n2 \in results : IndexOf(n1) = IndexOf(n2) => n1 = n2
    /\ \A c \in Running :
           work[c].pc = "saved" =>
               /\ ~work[c].overwrote
               /\ work[c].index = Cardinality(results) - 1
               /\ \A n \in work[c].saved : n \in results /\ IndexOf(n) = work[c].index

\* two saves of the same prompt and seed have happened
C12_Witness ==
    /\ Cardinality(results) = 2
    /\ \E n1, n2 \in results :
           /\ n1 # n2
           /\ n1.prompt_name = n2.prompt_name
           /\ n1.seed = n2.seed

\* C14: the prompt part of a file name is the first 50 characters of the
\* prompt with every character that is not alphanumeric, '_' or '-' made
\* '_' and the '_' at both ends removed: it holds only alphanumerics, '_'
\* and '-', has at most 50 characters and neither starts nor ends with '_'
C14_PromptNameIsClean ==
    \A c \in Running :
        work[c].pc = "saved" =>
            \A n \in work[c].saved :
                LET p == n.prompt_name
                    cut == Slice(work[c].prompt, PromptPrefix)
                    cleaned == [i \in 1..Len(cut) |->
                                   IF cut[i] \in AlnumChars \cup {"_", "-"}
                                   THEN cut[i] ELSE "_"]
                IN  /\ \A i \in 1..Len(p) : p[i] \in AlnumChars \cup {"_", "-"}
                    /\ Len(p) <= PromptPrefix
                    /\ Len(p) > 0 => p[1] # "_" /\ p[Len(p)] # "_"
                    /\ \E i \in 0..Len(cleaned) :
                          /\ p = SubSeq(cleaned, i + 1, i + Len(p))
                          /\ \A j \in 1..i : cleaned[j] = "_"
                          /\ \A j \in (i + Len(p) + 1)..Len(cleaned) : cleaned[j] = "_"

\* a prompt longer than the cut whose 50th character is a space: the name
\* is the 49 characters before it
C14_Witness ==
    \E c \in Running :
        /\ work[c].pc = "saved"
        /\ Len(work[c].prompt) > PromptPrefix
        /\ work[c].prompt[PromptPrefix] = " "
        /\ \E n \in work[c].saved : Len(n.prompt_name) = PromptPrefix - 1

\* C13: a call whose model_version is not one of the two known variants is
\* refused before it reaches the cache: it never gets to the early-return
\* test of prepare_pipeline, builds nothing, and the recorded config never
\* names an unknown variant
C13_UnknownVariantRejected ==
    /\ Recorded.model_version \in ModelVersions
    /\ \A c \in Running :
           work[c].args.model_version \notin ModelVersions =>
               /\ ~Entered(work[c])
               /\ work[c].pc \in {"prepare", "raised"}
               /\ work[c].built = 0

\* caller c has an event waiting in the queue
Queued(c) == \E i \in 1..Len(queue) : queue[i].caller = c

\* C15: the waiting generate events run in the order they arrived, one at a
\* time and each to its end: the event that starts is the oldest one and
\* starts on a free lane, events leave the queue only from its head and
\* join it only at its tail whatever became of the calls before them, and
\* every waiting event is started and every started call ends (as far as
\* the results directory of the model has room for its file)
C15_QueueIsFifoAndDrains ==
    /\ [][ /\ \A c \in Callers :
               (c \notin Running /\ c \in DOMAIN work') =>
                   /\ Running = {}
                   /\ Len(queue) > 0
                   /\ queue[1].caller = c
                   /\ queue' = Tail(queue)
           /\ queue' # queue =>
                  \/ Len(queue) > 0 /\ queue' = Tail(queue) /\ DOMAIN work' # Running
                  \/ /\ Len(queue') = Len(queue) + 1
                     /\ SubSeq(queue', 1, Len(queue)) = queue ]_vars
    /\ \A c \in Callers :
           /\ Queued(c) ~> (c \in Running \/ Cardinality(results) >= MaxFiles)
           /\ (c \in Running) ~> (c \notin Running)

\* a call has failed and another caller's event is waiting behind it
C15_Witness ==
    /\ \E c \in Running : work[c].pc = "raised"
    /\ Len(queue) > 0
    /\ prev.valid /\ prev.exc # ""

\* no call is inside prepare_pipeline past its early-return test
BetweenPrepareCalls ==
    \A c \in Running : work[c].pc \notin {"release", "construct", "adapters"}

\* C16: whenever a pipeline is resident and no prepare_pipeline call is under
\* way, also after a call that raised part-way, the recorded enable_realism
\* and enable_anti_blur name exactly the adapters attached to the resident
\* pipeline, so that an exact-match hit returns the adapters it asks for
C16_RecordedAddOnsAreAttached ==
    (BetweenPrepareCalls /\ Resident) =>
        heap[loaded_pipeline_config["pipeline"]].adapters = EnabledAddOns(Recorded)

\* C17: whenever a pipeline is resident and no prepare_pipeline call is under
\* way, after any sequence of calls that returned or raised, the recorded
\* model_version is the model_version the resident pipeline was built with
C17_RecordedVariantIsResidentVariant ==
    (BetweenPrepareCalls /\ Resident) =>
        heap[loaded_pipeline_config["pipeline"]].model_version = Recorded.model_version

\* a call that changed the variant has raised after the new pipeline was
\* stored, and the pipeline of the new variant stays resident
C17_Witness ==
    /\ Running = {}
    /\ Resident
    /\ prev.valid /\ prev.exc = "load_loras" /\ prev.built = 1
    /\ heap[loaded_pipeline_config["pipeline"]].model_version = STAGE_1

\* C18: a prepare_pipeline call whose five arguments equal the recorded config
\* while a pipeline is resident changes nothing: the step that takes it past
\* the early-return test leaves loaded_pipeline_config and every pipeline
\* instance (its adapters included) as they were and returns the resident
\* instance, and the call builds nothing and never reaches the adapter code
C18_ExactMatchChangesNothing ==
    /\ [][\A c \in Callers :
             (/\ c \in Running /\ work[c].pc = "prepare" /\ work'[c].pc # "prepare"
              /\ Resident /\ Recorded = ConfigOf(work[c].args))
             => /\ loaded_pipeline_config' = loaded_pipeline_config
                /\ heap' = heap
                /\ work'[c].pc = "infer"
                /\ work'[c].pipeline = loaded_pipeline_config["pipeline"]]_vars
    /\ [](\A c \in Running :
             (/\ Entered(work[c]) /\ work[c].entry = "resident"
              /\ work[c].config0 = ConfigOf(work[c].args))
             => /\ work[c].path = "hit"
                /\ work[c].built = 0
                /\ work[c].pipeline = work[c].pipeline0
                /\ work[c].pc \in {"infer", "returned"})

\* a call has taken the early return on a pipeline that has an adapter attached
C18_Witness ==
    \E c \in Running :
        /\ work[c].path = "hit"
        /\ work[c].pc = "infer"
        /\ heap[work[c].pipeline].adapters # {}

\* what a failed download raises
DownloadErrors == {"snapshot_download", "Model download failed"}

\* C19: models_downloaded turns true only in a call in which both downloads
\* succeeded and never turns false again; a call entered with the flag true
\* downloads nothing, one entered with the flag false tries the download;
\* a call in which a download fails leaves the flag false and ends with that
\* error before prepare_pipeline and the pipeline call, the cache untouched
C19_DownloadOncePerProcess ==
    /\ [][ /\ models_downloaded => models_downloaded'
           /\ (models_downloaded' /\ ~models_downloaded) =>
                  \E c \in DOMAIN work' \ Running :
                      work'[c].downloads = 2 /\ work'[c].exc = ""
           /\ \A c \in Running :
                  work[c].exc \in DownloadErrors =>
                      /\ loaded_pipeline_config' = loaded_pipeline_config
                      /\ heap' = heap /\ results' = results ]_vars
    /\ [](\A c \in Running :
             LET f == work[c] IN
               /\ f.flag0 => f.downloads = 0 /\ f.exc \notin DownloadErrors
               /\ ~f.flag0 => f.downloads >= 1
               /\ (f.downloads = 2 /\ f.exc \notin DownloadErrors) => models_downloaded
               /\ f.exc \in DownloadErrors =>
                     /\ ~models_downloaded
                     /\ f.pc = "raised" /\ f.notice = f.exc
                     /\ ~Entered(f) /\ ~f.called /\ f.built = 0)

\* a call entered with the flag false has made both downloads: the flag is
\* true and the call has gone on to the pipeline call
C19_Witness ==
    \E c \in Running :
        /\ ~work[c].flag0 /\ work[c].downloads = 2 /\ work[c].exc = ""
        /\ models_downloaded
        /\ work[c].pc = "infer"

\* a step in which the pipeline call of caller c returns an image
InferenceSucceeds(c) ==
    /\ c \in Running /\ work[c].pc = "infer"
    /\ work'[c].pc = "returned" /\ work'[c].exc = ""

\* C20: the results directory changes only in the step of a call whose
\* pipeline call succeeded, and then by exactly one new file; a call that
\* failed (download, construction, adapters or pipeline call) has written
\* nothing, so the file of the next successful call gets the number the
\* failed one would have had
C20_OnlySuccessWritesOneFile ==
    /\ [][ /\ results' # results => \E c \in Callers : InferenceSucceeds(c)
           /\ \A c \in Callers :
                  InferenceSucceeds(c) =>
                      /\ results \subseteq results'
                      /\ Cardinality(results') = Cardinality(results) + 1
                      /\ work'[c].saved = results' \ results ]_vars
    /\ [](\A c \in Running :
             LET f == work[c] IN
               /\ (f.exc # "" \/ f.pc # "returned") => f.saved = {}
               /\ (f.pc = "returned" /\ f.exc = "") =>
                     /\ Cardinality(f.saved) = 1
                     /\ f.saved \subseteq results
                     /\ \A n \in f.saved : IndexOf(n) = Cardinality(results) - 1)

\* the pipeline call of one call has raised and the next call has saved the
\* first file of the directory
C20_Witness ==
    \E c \in Running :
        /\ work[c].pc = "returned" /\ work[c].exc = ""
        /\ prev.valid /\ prev.exc = "pipeline"
        /\ \E n \in work[c].saved : IndexOf(n) = 0

====
